---- MODULE Spec2Model ----
(***************************************************************************)
(* Model of the telemetry log viewer (src/graph_viewer.py, LogGraphApp)    *)
(* and of the collector that feeds its store (src/log_collector.py).       *)
(*                                                                         *)
(* Time is an integer number of clock units.  A datetime is the number of  *)
(* units since day 0, a date is a day number, DayLen units make one day,   *)
(* and datetime.time.max is the last unit of a day.  isoformat() strings   *)
(* of naive datetimes compare in the order of the datetimes, so the        *)
(* store's BETWEEN on the timestamp text is a comparison of the integers.  *)
(***************************************************************************)
EXTENDS Integers, Sequences, FiniteSets, TLC

VARIABLES
    now,                     \* the wall clock read by datetime.datetime.now()
    store,                   \* rows of table logs, in insertion order
    current_end_time,        \* reactive: end of the displayed window
    current_date,            \* reactive: the day change-day moves from
    follow_mode,             \* reactive: TRUE = LIVE, FALSE = PAUSED
    data_hash,               \* reactive: fingerprint of the last applied result
    parsed_data_from_worker, \* the last applied result
    read_worker,             \* the Worker object self.read_worker refers to, 0 = None
    workers,                 \* every live Worker object: state, thread position, result
    messages,                \* the app's message queue: StateChanged and Callback
    events,                  \* how many outside events have happened
    last,                    \* history: the handler that ran last and what it did
    refresh_interval_seconds, \* reactive: the refresh cadence
    refresh_timer,           \* the Timer self.refresh_timer refers to, 0 = None
    timers,                  \* every Timer made by set_interval, in creation order
    dialog,                  \* the RefreshDialog screen: "closed" or "open"
    main_pc,                 \* log_collector.main: "start", "gather", "failed", "stopped"
    db_conn,                 \* the collector's store connection: "open" or "closed"
    dht_sensor,              \* the module's dht_sensor: TRUE = a sensor, FALSE = None
    dht_task,                \* the read_dht11 task: "none", "created", "sleeping", "returned"
    serial_task,             \* the read_serial task: "none", "reading", "sleeping", "spinning"
    stream,                  \* the serial connection: "open", "eof" or "error"
    received,                \* history: the lines readline has returned
    serial_out,              \* what has been written to the serial line
    plot_width,              \* plot_size()[0] of the plot widget at the last redraw
    aggregated_data          \* what _prepare_aggregated_data gave at the last redraw

\* the refresh timer of the viewer
timer_vars == <<refresh_interval_seconds, refresh_timer, timers, dialog>>

\* what the viewer's navigation, queries and store feed leave alone
\* the collector process
collector_vars == <<main_pc, db_conn, dht_sensor, dht_task, serial_task, stream,
                    received, serial_out>>

\* the redraw
render_vars == <<plot_width, aggregated_data>>

aux_vars == <<timer_vars, collector_vars, render_vars>>
aux_unchanged == UNCHANGED aux_vars

vars == <<now, store, current_end_time, current_date, follow_mode, data_hash,
          parsed_data_from_worker, read_worker, workers, messages, events, last,
          aux_vars>>

----------------------------------------------------------------------------
(* Bounds of the model *)

\* clock units per day
DayLen == 2
\* half of time_window_seconds, so that the half-window step is a whole number
HalfWindow == 1
\* outside events after start-up: keys pressed, advances of the clock, lines
\* and sensor polls handled by the collector
MaxEvents == 2
\* Worker objects alive at once (running, or finished with an event queued)
MaxWorkers == 2

time_window_seconds == 2 * HalfWindow

\* the viewer is started in the last unit of day 1: day 0 lies before it and
\* the clock can cross midnight into day 2
StartTime == 2 * DayLen - 1

WorkerIds == 1..MaxWorkers

----------------------------------------------------------------------------
(* Python values *)

None == [some |-> FALSE]
Some(v) == [some |-> TRUE, val |-> v]

\* JSON values of payload fields
Num(n) == <<"num", n>>
Str == <<"str", 0>>
\* what dict.get returns for a missing key
Absent == <<"none", 0>>

\* isinstance(v, (int, float))
is_numeric(v) == v[1] = "num"

\* the two values of column type ("Serie JSON" is written with an accent in the source)
SERIAL_TYPE == "Serie JSON"
GPIO_TYPE == "GPIO JSON"

\* all field names, in the order sort_keys=True puts them
FieldOrder == <<"humidity", "niveau_utile", "temperature">>

\* a JSON object with the given fields, and a JSON value that is no object
Object(f) == [obj |-> TRUE, fields |-> f]
NonObject == [obj |-> FALSE, fields |-> <<>>]

date_of(t) == t \div DayLen
\* datetime.datetime.combine(d, datetime.time.max)
end_of_day(d) == d * DayLen + (DayLen - 1)
today == date_of(now)

----------------------------------------------------------------------------
(* The range query: LogGraphApp.read_logs_from_db *)

\* SELECT ... WHERE timestamp BETWEEN lower AND upper ORDER BY timestamp ASC
\* (rows are inserted in clock order, so insertion order is timestamp order)
select_between(rows, lower, upper) ==
    SelectSeq(rows, LAMBDA r : lower <= r.timestamp /\ r.timestamp <= upper)

\* data.items() raises AttributeError when a serial or GPIO row holds JSON
\* that is no object
rows_raise(results) ==
    \E i \in 1..Len(results) :
        results[i].type \in {SERIAL_TYPE, GPIO_TYPE} /\ ~results[i].json.obj

rows_of_type(results, log_type) ==
    SelectSeq(results, LAMBDA r : r.type = log_type)

\* k for k, v in data.items() if isinstance(v, (int, float)), over all rows
numeric_keys(rows) ==
    UNION {{k \in DOMAIN rows[i].json.fields : is_numeric(rows[i].json.fields[k])}
           : i \in 1..Len(rows)}

\* row[1].get(key)
dict_get(fields, key) == IF key \in DOMAIN fields THEN fields[key] ELSE Absent

\* [row[0] for row in rows], row[0] = (log_time - start_time).total_seconds()
times_of(rows, start_time) ==
    [i \in 1..Len(rows) |-> rows[i].timestamp - start_time]

\* {key: [row[1].get(key) for row in rows] for key in keys}
data_of(rows) ==
    [key \in numeric_keys(rows) |->
        [i \in 1..Len(rows) |-> dict_get(rows[i].json.fields, key)]]

\* the dictionary read_logs_from_db returns for the fetched rows
parse_results(results, start_time) ==
    LET serial_rows == rows_of_type(results, SERIAL_TYPE)
        gpio_rows == rows_of_type(results, GPIO_TYPE)
    IN  [serial_times |-> times_of(serial_rows, start_time),
         serial_data |-> data_of(serial_rows),
         gpio_times |-> times_of(gpio_rows, start_time),
         gpio_data |-> data_of(gpio_rows)]

\* what the worker ends with: its final state and its result.  db_error is a
\* sqlite3.Error from connect or execute, caught and turned into None.
read_logs_from_db(rows, start_time, upper, db_error) ==
    LET results == select_between(rows, start_time, upper)
    IN  IF db_error THEN [state |-> "SUCCESS", result |-> None]
        ELSE IF rows_raise(results) THEN [state |-> "ERROR", result |-> None]
        ELSE [state |-> "SUCCESS", result |-> Some(parse_results(results, start_time))]

----------------------------------------------------------------------------
(* The fingerprint: hashlib.md5(json.dumps(parsed_data, sort_keys=True)) *)

\* a dictionary of series written with its keys in sorted order
dumps_series(m) ==
    LET sorted_keys == SelectSeq(FieldOrder, LAMBDA k : k \in DOMAIN m)
    IN  [i \in 1..Len(sorted_keys) |-> <<sorted_keys[i], m[sorted_keys[i]]>>]

\* json.dumps(parsed_data, sort_keys=True): the four entries in key order
json_dumps(d) ==
    << <<"gpio_data", dumps_series(d.gpio_data)>>,
       <<"gpio_times", d.gpio_times>>,
       <<"serial_data", dumps_series(d.serial_data)>>,
       <<"serial_times", d.serial_times>> >>

\* the digest of a text, taken to be free of collisions
md5_hexdigest(text) == <<"md5", text>>

\* the initial value of data_hash, the empty string
EmptyHash == <<"", <<>>>>

----------------------------------------------------------------------------
(* Worker objects (textual.worker.Worker) and the app's message queue *)

FreeWorker ==
    [state |-> "FREE", pc |-> "done", start_time |-> 0,
     launch_end |-> 0, nav_skipped |-> FALSE, result |-> None]

\* a Worker just made by run_worker: its thread has not read anything yet.
\* Two history fields: launch_end is the window end the query was launched
\* for, nav_skipped tells whether a key handler asked for a launch while this
\* worker was running.
NewWorker(end_time) ==
    [state |-> "RUNNING", pc |-> "start", start_time |-> 0,
     launch_end |-> end_time, nav_skipped |-> FALSE, result |-> None]

\* is_finished that counts only a success as an end
is_finished_on_success(w) == w.state = "SUCCESS"

\* Worker.is_finished
is_finished(w) == w.state \in {"CANCELLED", "ERROR", "SUCCESS"}

\* the threads that are executing read_logs_from_db
InFlight == {w \in WorkerIds : workers[w].pc # "done"}

StateChanged(w, state) ==
    [kind |-> "StateChanged", worker |-> w, state |-> state, data |-> None]
Callback(data) ==
    [kind |-> "Callback", worker |-> 0, state |-> "", data |-> data]

\* run_worker(..., exclusive=True) cancels the unfinished workers of the
\* group; the thread of a cancelled worker runs on to its end.  A finished
\* worker that stops being self.read_worker has its event ignored when it
\* arrives, so its window is no longer kept.
cancel_group(ws) ==
    [w \in WorkerIds |->
        IF ws[w].state = "RUNNING" THEN [ws[w] EXCEPT !.state = "CANCELLED"]
        ELSE [ws[w] EXCEPT !.start_time = 0, !.launch_end = 0]]

\* self.read_worker and not self.read_worker.is_finished
worker_running == read_worker # 0 /\ ~is_finished(workers[read_worker])

FreeIds == {w \in WorkerIds : workers[w].state = "FREE"}

\* self.read_worker = self.run_worker(self.read_logs_from_db, thread=True,
\* exclusive=True), for the window that ends at end_time
launch_worker(end_time) ==
    /\ FreeIds # {}
    /\ LET w == CHOOSE x \in FreeIds : \A y \in FreeIds : x <= y
       IN  /\ read_worker' = w
           /\ workers' = [cancel_group(workers) EXCEPT ![w] = NewWorker(end_time)]

\* run_worker_safely without its "already running" test
run_worker_unguarded(end_time, by_key) == launch_worker(end_time)

\* run_worker_safely, called with current_end_time already set to end_time;
\* by_key tells the history whether a key handler is calling
run_worker_safely(end_time, by_key) ==
    IF worker_running
    THEN /\ UNCHANGED read_worker
         /\ workers' = [workers EXCEPT ![read_worker].nav_skipped = @ \/ by_key]
    ELSE launch_worker(end_time)

----------------------------------------------------------------------------
(* Navigation: the key bindings of LogGraphApp *)

\* history of the handler that ran: its name, the path it took, whether it
\* started a worker, and for a completion whether a key had asked for a launch
\* while the worker ran
Did(op, branch) ==
    last' = [op |-> op, branch |-> branch, launched |-> ~worker_running,
             after_nav |-> FALSE]
DidNoLaunch(op, branch) ==
    last' = [op |-> op, branch |-> branch, launched |-> FALSE, after_nav |-> FALSE]
DidComplete(branch, after_nav) ==
    last' = [op |-> "on_worker_state_changed", branch |-> branch,
             launched |-> FALSE, after_nav |-> after_nav]

view_unchanged == UNCHANGED <<data_hash, parsed_data_from_worker, messages>>
world_unchanged == UNCHANGED <<now, store>>

\* one more outside event
outside_event == events < MaxEvents /\ events' = events + 1

\* action_snap_to_now.  When follow_mode was False, setting it runs
\* watch_follow_mode, which calls action_snap_to_now once more before the
\* outer call reaches run_worker_safely: the second launch request finds the
\* worker of the first one running, so the two calls act as one.
action_snap_to_now ==
    /\ current_end_time' = now
    /\ current_date' = date_of(now)
    /\ follow_mode' = TRUE
    /\ run_worker_safely(now, TRUE)

\* key f
action_toggle_follow_mode ==
    /\ outside_event
    /\ IF follow_mode
       THEN /\ follow_mode' = FALSE
            /\ UNCHANGED <<current_end_time, current_date, read_worker, workers>>
            /\ DidNoLaunch("toggle_follow_mode", "pause")
       ELSE /\ action_snap_to_now
            /\ Did("toggle_follow_mode", "live")
    /\ view_unchanged /\ world_unchanged /\ aux_unchanged

\* key h
action_change_day_backward ==
    /\ outside_event
    /\ current_date > 0
    /\ follow_mode' = FALSE
    /\ current_date' = current_date - 1
    /\ current_end_time' = end_of_day(current_date - 1)
    /\ run_worker_safely(end_of_day(current_date - 1), TRUE)
    /\ Did("change_day_backward", "day")
    /\ view_unchanged /\ world_unchanged /\ aux_unchanged

\* the day test off by one day
day_allowed_tomorrow(new_date) == new_date <= today + 1

\* new_date <= datetime.date.today()
day_allowed(new_date) == new_date <= today

\* key l
action_change_day_forward ==
    /\ outside_event
    /\ LET new_date == current_date + 1
       IN  IF day_allowed(new_date)
           THEN IF new_date = today
                THEN /\ action_snap_to_now
                     /\ Did("change_day_forward", "snap")
                ELSE /\ follow_mode' = FALSE
                     /\ current_date' = new_date
                     /\ current_end_time' = end_of_day(new_date)
                     /\ run_worker_safely(end_of_day(new_date), TRUE)
                     /\ Did("change_day_forward", "day")
           ELSE /\ UNCHANGED <<current_end_time, current_date, follow_mode,
                               read_worker, workers>>
                /\ DidNoLaunch("change_day_forward", "rejected")
    /\ view_unchanged /\ world_unchanged /\ aux_unchanged

\* key j
action_move_backward ==
    /\ outside_event
    /\ current_end_time - HalfWindow >= 0
    /\ follow_mode' = FALSE
    /\ current_end_time' = current_end_time - HalfWindow
    /\ current_date' = date_of(current_end_time - HalfWindow)
    /\ run_worker_safely(current_end_time - HalfWindow, TRUE)
    /\ Did("move_backward", "step")
    /\ view_unchanged /\ world_unchanged /\ aux_unchanged

\* the clamp test with > for >=
forward_clamped_strict(new_end_time) == new_end_time > now

\* new_end_time >= datetime.datetime.now()
forward_clamped(new_end_time) == new_end_time >= now

\* key k
action_move_forward ==
    /\ outside_event
    /\ LET new_end_time == current_end_time + HalfWindow
       IN  IF forward_clamped(new_end_time)
           THEN /\ action_snap_to_now
                /\ Did("move_forward", "snap")
           ELSE /\ follow_mode' = FALSE
                /\ current_end_time' = new_end_time
                /\ current_date' = date_of(new_end_time)
                /\ run_worker_safely(new_end_time, TRUE)
                /\ Did("move_forward", "step")
    /\ view_unchanged /\ world_unchanged /\ aux_unchanged

\* _live_update without its test of follow_mode
live_update_unconditional ==
    /\ current_end_time' = now
    /\ run_worker_safely(now, FALSE)
    /\ Did("live_update", IF follow_mode THEN "live" ELSE "paused")
    /\ UNCHANGED <<current_date, follow_mode, events>>
    /\ view_unchanged /\ world_unchanged /\ aux_unchanged

\* _live_update, the callback of the refresh timer
live_update ==
    /\ IF follow_mode
       THEN /\ current_end_time' = now
            /\ run_worker_safely(now, FALSE)
            /\ Did("live_update", "live")
            /\ UNCHANGED <<current_date, follow_mode>>
       ELSE /\ UNCHANGED <<current_end_time, current_date, follow_mode,
                           read_worker, workers>>
            /\ DidNoLaunch("live_update", "paused")
    /\ UNCHANGED events
    /\ view_unchanged /\ world_unchanged /\ aux_unchanged

----------------------------------------------------------------------------
(* The worker thread and the completion of a worker *)

ctrl_unchanged == UNCHANGED <<current_end_time, current_date, follow_mode>>
thread_unchanged == UNCHANGED <<current_end_time, current_date, follow_mode, events>>

\* read_logs_from_db, first read of self.current_end_time:
\* start_time = self.current_end_time - timedelta(seconds=self.time_window_seconds)
worker_read_start(w) ==
    /\ workers[w].pc = "start"
    /\ workers' = [workers EXCEPT ![w].pc = "query",
                                  ![w].start_time = current_end_time - time_window_seconds]
    /\ DidNoLaunch("worker_read_start", "thread")
    /\ UNCHANGED read_worker
    /\ thread_unchanged /\ view_unchanged /\ world_unchanged /\ aux_unchanged

\* read_logs_from_db, second read of self.current_end_time for the upper bound
\* of the query, then the fetch and the parse; the function returns or raises,
\* Worker._run sets the final state, and the state setter posts StateChanged.
\* A worker cancelled meanwhile keeps its CANCELLED state and posts nothing.
worker_query(w) ==
    /\ workers[w].pc = "query"
    /\ \E db_error \in BOOLEAN :
        LET out == read_logs_from_db(store, workers[w].start_time,
                                     current_end_time, db_error)
        IN  IF workers[w].state = "CANCELLED"
            THEN /\ workers' = [workers EXCEPT ![w] = FreeWorker]
                 /\ UNCHANGED messages
                 /\ DidNoLaunch("worker_query", "cancelled")
            ELSE /\ workers' = [workers EXCEPT ![w].pc = "done",
                                               ![w].state = out.state,
                                               ![w].result = out.result]
                 /\ messages' = Append(messages, StateChanged(w, out.state))
                 /\ DidNoLaunch("worker_query",
                                IF out.state = "ERROR" THEN "raised"
                                ELSE IF out.result.some THEN "data" ELSE "none")
    /\ UNCHANGED <<read_worker, data_hash, parsed_data_from_worker>>
    /\ thread_unchanged /\ world_unchanged /\ aux_unchanged

\* json.dumps of the result, None included, and its md5
fingerprint(parsed_data) ==
    md5_hexdigest(IF parsed_data.some THEN json_dumps(parsed_data.val)
                  ELSE <<"null">>)

\* a reactive runs its watcher only when the assigned value differs
reactive_changed(old_val, new_val) == old_val # new_val

\* watch_data_hash: does it call_later(update_displays, ...)
watch_data_hash(old_hash, new_hash) == new_hash # EmptyHash /\ old_hash # new_hash

\* a redraw asked for at every applied result
redraw_always(old_hash, new_hash, data) == <<Callback(data)>>

\* the messages posted while on_worker_state_changed assigns data_hash:
\* call_later(self.update_displays, self.parsed_data_from_worker)
redraw_request(old_hash, new_hash, data) ==
    IF reactive_changed(old_hash, new_hash) /\ watch_data_hash(old_hash, new_hash)
    THEN <<Callback(data)>>
    ELSE <<>>

\* no test of which worker the event is about
event_never_ignored(event) == FALSE

\* event.worker != self.read_worker
event_ignored(event) == event.worker # read_worker

\* no test of the result, as in the revision that fingerprints a failed query
result_always_applied(parsed_data) == TRUE

\* if parsed_data:
result_truthy(parsed_data) == parsed_data.some

\* on_worker_state_changed, for the StateChanged message at the head of the
\* queue.  Once handled, nothing refers to the worker any more.
on_worker_state_changed ==
    /\ messages # <<>>
    /\ Head(messages).kind = "StateChanged"
    /\ LET event == Head(messages)
           parsed_data == workers[event.worker].result
           after_nav == workers[event.worker].nav_skipped
           new_hash == fingerprint(parsed_data)
           request == redraw_request(data_hash, new_hash, parsed_data)
       IN  /\ workers' = [workers EXCEPT ![event.worker] = FreeWorker]
           /\ IF event_ignored(event)
              THEN /\ messages' = Tail(messages)
                   /\ UNCHANGED <<read_worker, data_hash, parsed_data_from_worker>>
                   /\ DidComplete("ignored", after_nav)
              ELSE IF event.state = "SUCCESS"
              THEN /\ read_worker' = 0
                   /\ IF result_truthy(parsed_data)
                      THEN /\ parsed_data_from_worker' = parsed_data
                           /\ data_hash' = new_hash
                           /\ messages' = Tail(messages) \o request
                           /\ DidComplete(IF request = <<>> THEN "same" ELSE "redrawn",
                                          after_nav)
                      ELSE /\ messages' = Tail(messages)
                           /\ UNCHANGED <<data_hash, parsed_data_from_worker>>
                           /\ DidComplete("none", after_nav)
              ELSE /\ read_worker' = 0
                   /\ messages' = Tail(messages)
                   /\ UNCHANGED <<data_hash, parsed_data_from_worker>>
                   /\ DidComplete("error", after_nav)
    /\ thread_unchanged /\ world_unchanged /\ aux_unchanged

\* the Callback posted by call_later: update_displays(parsed_data) hands the
\* data to the render sink, which is outside the model
update_displays ==
    /\ messages # <<>>
    /\ Head(messages).kind = "Callback"
    /\ messages' = Tail(messages)
    /\ DidNoLaunch("update_displays", "redraw")
    /\ UNCHANGED <<read_worker, workers, data_hash, parsed_data_from_worker>>
    /\ thread_unchanged /\ world_unchanged /\ aux_unchanged

----------------------------------------------------------------------------
(* The world: the clock and the collector that fills the store *)

clock_tick ==
    /\ outside_event
    /\ now' = now + 1
    /\ DidNoLaunch("clock_tick", "time")
    /\ UNCHANGED <<store, read_worker, workers>>
    /\ ctrl_unchanged /\ view_unchanged /\ aux_unchanged

\* the lines the serial device may send: text that is no JSON, a JSON object,
\* a JSON number
SerialLines ==
    {[is_json |-> FALSE, value |-> NonObject],
     [is_json |-> TRUE, value |-> Object([k \in {"niveau_utile"} |-> Num(1)])],
     [is_json |-> TRUE, value |-> NonObject]}

\* cursor.execute("INSERT INTO logs (timestamp, type, json) VALUES (?, ?, ?)")
insert_log(log_type, json) ==
    store' = Append(store, [timestamp |-> now, type |-> log_type, json |-> json])

\* read_serial, one line: json.loads(line) decides whether it is stored
read_serial ==
    /\ outside_event
    /\ \E line \in SerialLines :
        IF line.is_json
        THEN /\ insert_log(SERIAL_TYPE, line.value)
             /\ DidNoLaunch("read_serial", "inserted")
        ELSE /\ UNCHANGED store
             /\ DidNoLaunch("read_serial", "dropped")
    /\ UNCHANGED <<now, read_worker, workers>>
    /\ ctrl_unchanged /\ view_unchanged /\ aux_unchanged

\* what one poll of the DHT11 may give: (temperature, humidity), None = no value
SensorReadings == {<<Num(20), Num(50)>>, <<Absent, Num(50)>>}

\* read_dht11, one poll: a row is stored when both values are present
read_dht11 ==
    /\ outside_event
    /\ \E reading \in SensorReadings :
        IF reading[1] # Absent /\ reading[2] # Absent
        THEN /\ insert_log(GPIO_TYPE,
                    Object([k \in {"temperature", "humidity"} |->
                              IF k = "temperature" THEN reading[1] ELSE reading[2]]))
             /\ DidNoLaunch("read_dht11", "inserted")
        ELSE /\ UNCHANGED store
             /\ DidNoLaunch("read_dht11", "skipped")
    /\ UNCHANGED <<now, read_worker, workers>>
    /\ ctrl_unchanged /\ view_unchanged /\ aux_unchanged

----------------------------------------------------------------------------
(* The refresh timer: refresh_interval_seconds, its watcher and RefreshDialog *)

\* refresh_interval_seconds: reactive[int] = reactive(5)
DefaultInterval == 5
\* the largest other cadence given on the command line or typed in the dialog
MaxInterval == 2

\* a Timer made by self.set_interval(new_val, self._live_update)
NewTimer(interval) == [interval |-> interval, active |-> TRUE]

\* Timer.stop()
stop(ts, t) == [ts EXCEPT ![t].active = FALSE]

\* the timers that still call _live_update
ActiveTimers == {t \in 1..Len(timers) : timers[t].active}

\* the watcher without its stop of the previous timer
watch_refresh_without_stop(rt, ts, new_val) ==
    IF new_val > 0
    THEN [refresh_timer |-> Len(ts) + 1, timers |-> Append(ts, NewTimer(new_val))]
    ELSE [refresh_timer |-> rt, timers |-> ts]

\* watch_refresh_interval_seconds(old_val, new_val), as the values it leaves
\* in self.refresh_timer and in the set of timers
watch_refresh_interval_seconds(rt, ts, new_val) ==
    LET stopped == IF rt # 0 THEN stop(ts, rt) ELSE ts
    IN  IF new_val > 0
        THEN [refresh_timer |-> Len(stopped) + 1,
              timers |-> Append(stopped, NewTimer(new_val))]
        ELSE [refresh_timer |-> rt, timers |-> stopped]

\* self.refresh_interval_seconds = value
assign_refresh_interval_seconds(value) ==
    /\ refresh_interval_seconds' = value
    /\ IF reactive_changed(refresh_interval_seconds, value)
       THEN LET w == watch_refresh_interval_seconds(refresh_timer, timers, value)
            IN  /\ refresh_timer' = w.refresh_timer
                /\ timers' = w.timers
       ELSE UNCHANGED <<refresh_timer, timers>>

\* on_mount, self.refresh_interval_seconds = self._initial_refresh_interval:
\* the timer state it leaves.  init_watch tells whether the reactive ran its
\* watcher for the default value when it was first touched (reactive(5) is
\* declared with init left at its default).
mounted_timer(initial, init_watch) ==
    LET first == IF init_watch
                 THEN watch_refresh_interval_seconds(0, <<>>, DefaultInterval)
                 ELSE [refresh_timer |-> 0, timers |-> <<>>]
    IN  IF reactive_changed(DefaultInterval, initial)
        THEN watch_refresh_interval_seconds(first.refresh_timer, first.timers, initial)
        ELSE first

\* the timer side of the viewer after on_mount
InitRefresh(initial, init_watch) ==
    /\ refresh_interval_seconds = initial
    /\ refresh_timer = mounted_timer(initial, init_watch).refresh_timer
    /\ timers = mounted_timer(initial, init_watch).timers
    /\ dialog = "closed"

\* what the input field may hold when OK or Enter is pressed: text that int()
\* rejects, or an integer
DialogInputs ==
    {[is_int |-> FALSE, val |-> 0]} \cup {[is_int |-> TRUE, val |-> v] : v \in -1..MaxInterval}

\* RefreshDialog._validate_and_dismiss: the value it dismisses with, None when
\* it rings the bell and stays open
validate_and_dismiss(input) ==
    IF input.is_int /\ input.val > 0 THEN Some(input.val) ELSE None

refresh_rest_unchanged ==
    UNCHANGED <<now, store, current_end_time, current_date, follow_mode, data_hash,
                parsed_data_from_worker, read_worker, workers, messages,
                collector_vars, render_vars>>

\* key r: action_show_refresh_dialog pushes the dialog
action_show_refresh_dialog ==
    /\ outside_event
    /\ dialog = "closed"
    /\ dialog' = "open"
    /\ DidNoLaunch("show_refresh_dialog", "open")
    /\ UNCHANGED <<refresh_interval_seconds, refresh_timer, timers>>
    /\ refresh_rest_unchanged

\* OK or Enter in the dialog, then the callback set_refresh_interval
dialog_submitted ==
    /\ dialog = "open"
    /\ \E input \in DialogInputs :
        LET new_interval == validate_and_dismiss(input)
        IN  IF new_interval.some
            THEN /\ dialog' = "closed"
                 /\ assign_refresh_interval_seconds(new_interval.val)
                 /\ DidNoLaunch("set_refresh_interval", "set")
            ELSE /\ UNCHANGED <<dialog, refresh_interval_seconds, refresh_timer, timers>>
                 /\ DidNoLaunch("set_refresh_interval", "bell")
    /\ UNCHANGED events
    /\ refresh_rest_unchanged

\* Cancel or Escape: dismiss() hands None to set_refresh_interval
dialog_cancelled ==
    /\ dialog = "open"
    /\ dialog' = "closed"
    /\ DidNoLaunch("set_refresh_interval", "cancelled")
    /\ UNCHANGED <<refresh_interval_seconds, refresh_timer, timers, events>>
    /\ refresh_rest_unchanged

\* a running Timer calls its callback, _live_update
refresh_timer_fires ==
    /\ ActiveTimers # {}
    /\ live_update

----------------------------------------------------------------------------
(* The collector process: log_collector.main and its two reader tasks.  Seen *)
(* from the viewer the collector is read_serial and read_dht11 above, a row  *)
(* appended to the store; here are its tasks step by step.                   *)

\* lines and sensor polls the collector handles in one run
MaxReads == 3

\* one more line read or sensor poll
collector_event == events < MaxReads /\ events' = events + 1

\* the stripped text of a line the device may send: blank, text that is no
\* JSON, two JSON objects, a JSON value that is no object
CollectorLines ==
    {[blank |-> TRUE, is_json |-> FALSE, value |-> NonObject],
     [blank |-> FALSE, is_json |-> FALSE, value |-> NonObject],
     [blank |-> FALSE, is_json |-> TRUE, value |-> Object([k \in {"niveau_utile"} |-> Num(1)])],
     [blank |-> FALSE, is_json |-> TRUE, value |-> Object([k \in {"niveau_utile"} |-> Num(2)])],
     [blank |-> FALSE, is_json |-> TRUE, value |-> NonObject]}

\* a parser that takes any text
json_loads_any(line) == TRUE

\* json.loads(line) returns, it does not raise JSONDecodeError
json_loads_ok(line) == line.is_json

\* the row written for a line of the serial stream
serial_row(line) == [timestamp |-> now, type |-> SERIAL_TYPE, json |-> line.value]

\* what one poll of the DHT11 may give: a temperature and a humidity, either
\* of them None, or a RuntimeError of the driver
DhtPolls ==
    {[error |-> FALSE, temperature |-> t, humidity |-> h] :
        t \in {Num(20), Num(21), Absent}, h \in {Num(50), Absent}}
    \cup {[error |-> TRUE, temperature |-> Absent, humidity |-> Absent]}

\* humidity is not None and temperature is not None
both_present(poll) == poll.humidity # Absent /\ poll.temperature # Absent

\* {"temperature": round(temperature, 2), "humidity": round(humidity, 2)}
gpio_row(poll) ==
    [timestamp |-> now, type |-> GPIO_TYPE,
     json |-> Object([k \in {"temperature", "humidity"} |->
                        IF k = "temperature" THEN poll.temperature ELSE poll.humidity])]

\* f"{temperature:.1f}\n": the whole degrees and one decimal
format_1f(temperature) == <<temperature[2], 0>>

\* serial_writer.write(temp_to_send): the text written after the poll
echo(out, poll) == Append(out, format_1f(poll.temperature))

\* the event loop can run a task that is ready: no task is looping without
\* reaching an await that suspends
loop_free == serial_task # "spinning"

collector_rest_unchanged ==
    UNCHANGED <<current_end_time, current_date, follow_mode, data_hash,
                parsed_data_from_worker, read_worker, workers, messages, timer_vars,
                render_vars>>

\* the sensor task made before the connection is opened
main_tasks_first(open_ok) ==
    IF open_ok
    THEN [main_pc |-> "gather", db_conn |-> "open", dht_task |-> "created",
          serial_task |-> "reading"]
    ELSE [main_pc |-> "failed", db_conn |-> "closed", dht_task |-> "created",
          serial_task |-> "none"]

\* main after open_serial_connection: asyncio.gather makes the two tasks, or
\* the SerialException is reported and the finally clause closes the store
main_after_open(open_ok) ==
    IF open_ok
    THEN [main_pc |-> "gather", db_conn |-> "open", dht_task |-> "created",
          serial_task |-> "reading"]
    ELSE [main_pc |-> "failed", db_conn |-> "closed", dht_task |-> "none",
          serial_task |-> "none"]

\* main, from open_serial_connection on
collector_main ==
    /\ main_pc = "start"
    /\ \E open_ok \in BOOLEAN :
        LET after == main_after_open(open_ok)
        IN  /\ main_pc' = after.main_pc
            /\ db_conn' = after.db_conn
            /\ dht_task' = after.dht_task
            /\ serial_task' = after.serial_task
            /\ DidNoLaunch("collector_main",
                           IF open_ok THEN "connected" ELSE "open_failed")
    /\ UNCHANGED <<now, store, events, dht_sensor, stream, received, serial_out>>
    /\ collector_rest_unchanged

\* KeyboardInterrupt: asyncio.run cancels main and its tasks, the finally
\* clause closes the store
collector_interrupt ==
    /\ main_pc = "gather"
    /\ main_pc' = "stopped"
    /\ db_conn' = "closed"
    /\ dht_task' = "none"
    /\ serial_task' = "none"
    /\ DidNoLaunch("collector_interrupt", "stopped")
    /\ UNCHANGED <<now, store, events, dht_sensor, stream, received, serial_out>>
    /\ collector_rest_unchanged

\* read_dht11 up to its loop: without a sensor the task returns
dht11_start ==
    /\ main_pc = "gather"
    /\ dht_task = "created"
    /\ loop_free
    /\ dht_task' = IF dht_sensor THEN "sleeping" ELSE "returned"
    /\ DidNoLaunch("dht11_start", IF dht_sensor THEN "loop" ELSE "no_sensor")
    /\ UNCHANGED <<now, store, events, main_pc, db_conn, dht_sensor, serial_task,
                   stream, received, serial_out>>
    /\ collector_rest_unchanged

\* read_dht11, one turn of its loop after asyncio.sleep(GPIO_INTERVAL_SECONDS)
dht11_poll ==
    /\ main_pc = "gather"
    /\ dht_task = "sleeping"
    /\ loop_free
    /\ collector_event
    /\ \E poll \in DhtPolls :
        IF poll.error
        THEN /\ UNCHANGED <<store, serial_out>>
             /\ DidNoLaunch("dht11_poll", "error")
        ELSE IF both_present(poll)
        THEN /\ store' = Append(store, gpio_row(poll))
             /\ serial_out' = echo(serial_out, poll)
             /\ DidNoLaunch("dht11_poll", "inserted")
        ELSE /\ UNCHANGED <<store, serial_out>>
             /\ DidNoLaunch("dht11_poll", "skipped")
    /\ UNCHANGED <<now, main_pc, db_conn, dht_sensor, dht_task, serial_task, stream,
                   received>>
    /\ collector_rest_unchanged

\* read_serial, one turn of its loop: readline returns a line, returns b""
\* at end of stream without suspending, or raises the stream's exception
serial_readline ==
    /\ main_pc = "gather"
    /\ serial_task = "reading"
    /\ IF stream = "open"
       THEN /\ collector_event
            /\ \E line \in CollectorLines :
                /\ received' = Append(received, line)
                /\ IF ~line.blank /\ json_loads_ok(line)
                   THEN /\ store' = Append(store, serial_row(line))
                        /\ DidNoLaunch("serial_readline", "inserted")
                   ELSE /\ UNCHANGED store
                        /\ DidNoLaunch("serial_readline",
                                       IF line.blank THEN "blank" ELSE "dropped")
            /\ UNCHANGED serial_task
       ELSE /\ serial_task' = IF stream = "eof" THEN "spinning" ELSE "sleeping"
            /\ DidNoLaunch("serial_readline",
                           IF stream = "eof" THEN "empty" ELSE "raised")
            /\ UNCHANGED <<store, received, events>>
    /\ UNCHANGED <<now, main_pc, db_conn, dht_sensor, dht_task, stream, serial_out>>
    /\ collector_rest_unchanged

\* read_serial after its handler's asyncio.sleep(1)
serial_retry ==
    /\ main_pc = "gather"
    /\ serial_task = "sleeping"
    /\ serial_task' = "reading"
    /\ DidNoLaunch("serial_retry", "loop")
    /\ UNCHANGED <<now, store, events, main_pc, db_conn, dht_sensor, dht_task, stream,
                   received, serial_out>>
    /\ collector_rest_unchanged

\* the device goes away: the transport feeds end of stream to the reader or
\* sets an exception on it
stream_lost ==
    /\ main_pc = "gather"
    /\ stream = "open"
    /\ stream' \in {"eof", "error"}
    /\ DidNoLaunch("stream_lost", "lost")
    /\ UNCHANGED <<now, store, events, main_pc, db_conn, dht_sensor, dht_task,
                   serial_task, received, serial_out>>
    /\ collector_rest_unchanged

\* the collector seen from the viewer: connected, both tasks in their loops
InitCollectorRunning ==
    /\ main_pc = "gather"
    /\ db_conn = "open"
    /\ dht_sensor = TRUE
    /\ dht_task = "sleeping"
    /\ serial_task = "reading"
    /\ stream = "open"
    /\ received = <<>>
    /\ serial_out = <<>>

----------------------------------------------------------------------------
(* The redraw: update_graph_panes, _prepare_aggregated_data and             *)
(* aggregate_data_median.  Offsets and widths are whole numbers and the     *)
(* divisions are exact: a bucket start and a median are kept as fractions.  *)

\* rows in the store when a redraw is checked
MaxPoints == 3
\* the widest plot, in cells
MaxWidth == 3

Fraction(n, d) == [num |-> n, den |-> d]

\* int(time_point / seconds_per_cell) with seconds_per_cell = window / width,
\* for the offsets the query gives, which are not negative
bin_index(time_point, window_seconds, width) == (time_point * width) \div window_seconds

\* bin_index * seconds_per_cell
bucket_start(index, window_seconds, width) == Fraction(index * window_seconds, width)

\* zip(times, values) after values were stripped of their None entries
zip_compacted(times, values) ==
    LET kept == SelectSeq(values, LAMBDA v : v # Absent)
    IN  [i \in 1..Len(kept) |-> [time |-> times[i], value |-> kept[i]]]

\* for time_point, value_point in zip(times, values): the pairs that pass
\* `if value_point is None: continue`
zip_skip_none(times, values) ==
    LET n == IF Len(times) < Len(values) THEN Len(times) ELSE Len(values)
        pairs == [i \in 1..n |-> [time |-> times[i], value |-> values[i]]]
    IN  SelectSeq(pairs, LAMBDA pt : pt.value # Absent)

\* sorted(bin_values), by insertion
RECURSIVE insert_sorted(_, _)
insert_sorted(sorted_seq, v) ==
    IF sorted_seq = <<>> THEN <<v>>
    ELSE IF v[2] < Head(sorted_seq)[2] THEN <<v>> \o sorted_seq
    ELSE <<Head(sorted_seq)>> \o insert_sorted(Tail(sorted_seq), v)

RECURSIVE sorted(_)
sorted(bin_values) ==
    IF bin_values = <<>> THEN <<>>
    ELSE insert_sorted(sorted(SubSeq(bin_values, 1, Len(bin_values) - 1)),
                       bin_values[Len(bin_values)])

\* the upper middle value taken for every count
median_upper_middle(sorted_bin) ==
    Fraction(sorted_bin[(Len(sorted_bin) \div 2) + 1][2], 1)

\* n = len(sorted_bin); mid = n // 2; the middle value, or the two middle
\* values added and divided by 2
median(sorted_bin) ==
    LET n == Len(sorted_bin)
        mid == n \div 2
    IN  IF n % 2 = 0
        THEN Fraction(sorted_bin[mid][2] + sorted_bin[mid + 1][2], 2)
        ELSE Fraction(sorted_bin[mid + 1][2], 1)

\* the keys of bins in ascending order: sorted(bins.items())
RECURSIVE ascending(_)
ascending(indices) ==
    IF indices = {} THEN <<>>
    ELSE LET least == CHOOSE x \in indices : \A y \in indices : x <= y
         IN  <<least>> \o ascending(indices \ {least})

\* aggregate_data_median(times, values, time_window_seconds, plot_width)
aggregate_data_median(times, values, window_seconds, width) ==
    IF times = <<>> \/ values = <<>> \/ width = 0
    THEN [times |-> <<>>, values |-> <<>>]
    ELSE LET points == zip_skip_none(times, values)
             index_of(pt) == bin_index(pt.time, window_seconds, width)
             bins == [b \in {index_of(points[i]) : i \in 1..Len(points)} |->
                        LET inbin == SelectSeq(points, LAMBDA pt : index_of(pt) = b)
                        IN  [i \in 1..Len(inbin) |-> inbin[i].value]]
             order == ascending(DOMAIN bins)
         IN  [times |-> [i \in 1..Len(order) |->
                            bucket_start(order[i], window_seconds, width)],
              values |-> [i \in 1..Len(order) |-> median(sorted(bins[order[i]]))]]

\* _prepare_aggregated_data(raw_data, plot_width): one aggregated series per
\* key of serial_data, then per key of gpio_data
prepare_aggregated_data(raw_data, width) ==
    [key \in DOMAIN raw_data.serial_data \cup DOMAIN raw_data.gpio_data |->
        IF key \in DOMAIN raw_data.gpio_data
        THEN aggregate_data_median(raw_data.gpio_times, raw_data.gpio_data[key],
                                   time_window_seconds, width)
        ELSE aggregate_data_median(raw_data.serial_times, raw_data.serial_data[key],
                                   time_window_seconds, width)]

\* nothing has been aggregated
NoAggregate == [key \in {} |-> 0]

\* the plot shows "Aucune donnee disponible"
no_data_available(parsed_data) ==
    \/ ~parsed_data.some
    \/ (parsed_data.val.serial_times = <<>> /\ parsed_data.val.gpio_times = <<>>)

render_rest_unchanged ==
    UNCHANGED <<now, store, current_end_time, current_date, follow_mode, data_hash,
                read_worker, workers, messages, events, timer_vars, collector_vars>>

\* a query of the displayed window whose result is applied: read_logs_from_db
\* run with one reading of current_end_time, then on_worker_state_changed
query_applied ==
    /\ ~parsed_data_from_worker.some
    /\ LET out == read_logs_from_db(store, current_end_time - time_window_seconds,
                                    current_end_time, FALSE)
       IN  /\ out.state = "SUCCESS"
           /\ parsed_data_from_worker' = out.result
    /\ DidNoLaunch("query_applied", "data")
    /\ UNCHANGED render_vars
    /\ render_rest_unchanged

\* update_graph_panes(parsed_data) for one plot, whose width is width cells
update_graph_panes ==
    /\ parsed_data_from_worker.some
    /\ \E width \in 0..MaxWidth :
        /\ plot_width' = width
        /\ aggregated_data' =
             IF no_data_available(parsed_data_from_worker) THEN NoAggregate
             ELSE prepare_aggregated_data(parsed_data_from_worker.val, width)
    /\ DidNoLaunch("update_graph_panes",
                   IF no_data_available(parsed_data_from_worker) THEN "no_data"
                   ELSE "plotted")
    /\ UNCHANGED parsed_data_from_worker
    /\ render_rest_unchanged

\* nothing drawn yet
InitRender ==
    /\ plot_width = 0
    /\ aggregated_data = NoAggregate

\* the values the device reports in the rows that are drawn
RenderValues == {10, 20, 30}

\* rows of the serial reader inside the displayed window: a level, or another
\* field only
RenderRows ==
    {[timestamp |-> t, type |-> SERIAL_TYPE, json |-> Object(f)] :
        t \in (StartTime - time_window_seconds)..StartTime,
        f \in {[k \in {"niveau_utile"} |-> Num(v)] : v \in RenderValues}
              \cup {[k \in {"temperature"} |-> Num(20)]}}

\* the stores the collector can have left: rows in clock order
RenderStores ==
    {rows \in UNION {[1..n -> RenderRows] : n \in 0..MaxPoints} :
        \A i \in 1..(Len(rows) - 1) : rows[i].timestamp <= rows[i + 1].timestamp}

----------------------------------------------------------------------------
(* The viewer after on_mount: action_snap_to_now has launched the first query *)

InitViewer ==
    /\ now = StartTime
    /\ store = <<>>
    /\ current_end_time = StartTime
    /\ current_date = date_of(StartTime)
    /\ follow_mode = TRUE
    /\ data_hash = EmptyHash
    /\ parsed_data_from_worker = None
    /\ read_worker = 1
    /\ workers = [w \in WorkerIds |-> IF w = 1 THEN NewWorker(StartTime) ELSE FreeWorker]
    /\ messages = <<>>
    /\ events = 0
    /\ last = [op |-> "on_mount", branch |-> "snap", launched |-> TRUE,
               after_nav |-> FALSE]

Init ==
    /\ InitViewer
    /\ InitRefresh(DefaultInterval, TRUE)
    /\ InitCollectorRunning
    /\ InitRender

Next ==
    \/ action_toggle_follow_mode
    \/ action_change_day_backward
    \/ action_change_day_forward
    \/ action_move_backward
    \/ action_move_forward
    \/ live_update
    \/ \E w \in WorkerIds : worker_read_start(w)
    \/ \E w \in WorkerIds : worker_query(w)
    \/ on_worker_state_changed
    \/ update_displays
    \/ clock_tick
    \/ read_serial
    \/ read_dht11

Spec == Init /\ [][Next]_vars

\* what the viewer's scheduling guarantees: a worker thread that was started
\* runs read_logs_from_db to its end, the message pump handles every queued
\* StateChanged and Callback, and the interval timer keeps calling
\* _live_update.  Keys, the clock and the collector owe nothing.
Fairness ==
    /\ \A w \in WorkerIds : WF_vars(worker_read_start(w))
    /\ \A w \in WorkerIds : WF_vars(worker_query(w))
    /\ WF_vars(on_worker_state_changed)
    /\ WF_vars(update_displays)
    /\ WF_vars(live_update)

SpecFair == Init /\ [][Next]_vars /\ Fairness

\* the viewer started with any --refresh value; only the refresh timer and
\* its dialog act
InitTimer ==
    /\ InitViewer
    /\ InitCollectorRunning
    /\ InitRender
    /\ \E initial \in (0..MaxInterval) \cup {DefaultInterval}, init_watch \in BOOLEAN :
        InitRefresh(initial, init_watch)

NextTimer ==
    \/ action_show_refresh_dialog
    \/ dialog_submitted
    \/ dialog_cancelled
    \/ refresh_timer_fires

SpecTimer == InitTimer /\ [][NextTimer]_vars

\* the collector from the start of main, after sqlite3.connect, with or
\* without a sensor; the viewer is left alone
InitCollector ==
    /\ InitViewer
    /\ InitRefresh(DefaultInterval, TRUE)
    /\ main_pc = "start"
    /\ db_conn = "open"
    /\ dht_sensor \in BOOLEAN
    /\ dht_task = "none"
    /\ serial_task = "none"
    /\ stream = "open"
    /\ received = <<>>
    /\ serial_out = <<>>
    /\ InitRender

NextCollector ==
    \/ collector_main
    \/ collector_interrupt
    \/ dht11_start
    \/ dht11_poll
    \/ serial_readline
    \/ serial_retry
    \/ stream_lost
    \/ clock_tick

SpecCollector == InitCollector /\ [][NextCollector]_vars

\* the viewer paused on a window of a store that holds any rows; a query is
\* applied and the plot is redrawn at any width
InitRedraw ==
    /\ now = StartTime
    /\ store \in RenderStores
    /\ current_end_time = StartTime
    /\ current_date = date_of(StartTime)
    /\ follow_mode = FALSE
    /\ data_hash = EmptyHash
    /\ parsed_data_from_worker = None
    /\ read_worker = 0
    /\ workers = [w \in WorkerIds |-> FreeWorker]
    /\ messages = <<>>
    /\ events = 0
    /\ last = [op |-> "on_mount", branch |-> "snap", launched |-> TRUE,
               after_nav |-> FALSE]
    /\ InitRefresh(DefaultInterval, TRUE)
    /\ InitCollectorRunning
    /\ InitRender

NextRedraw ==
    \/ query_applied
    \/ update_graph_panes

SpecRedraw == InitRedraw /\ [][NextRedraw]_vars

----------------------------------------------------------------------------
(* The range query over payloads of any shape *)

\* rows inside the displayed window: the serial reader stores any JSON object,
\* with a numeric level, a level that is a string, or no level at all; the
\* sensor reader stores two numbers
QueryRows ==
    {[timestamp |-> t, type |-> SERIAL_TYPE, json |-> Object(f)] :
        t \in (StartTime - time_window_seconds)..StartTime,
        f \in {[k \in {"niveau_utile"} |-> Num(1)],
               [k \in {"niveau_utile"} |-> Str],
               [k \in {"temperature"} |-> Num(20)]}}
    \cup
    {[timestamp |-> t, type |-> GPIO_TYPE,
      json |-> Object([k \in {"temperature", "humidity"} |->
                          IF k = "temperature" THEN Num(20) ELSE Num(50)])] :
        t \in (StartTime - time_window_seconds)..StartTime}

\* the stores the collector can have left: rows in clock order
QueryStores ==
    {rows \in UNION {[1..n -> QueryRows] : n \in 0..MaxPoints} :
        \A i \in 1..(Len(rows) - 1) : rows[i].timestamp <= rows[i + 1].timestamp}

\* the viewer paused on a window of a store that holds any rows
InitQuery ==
    /\ now = StartTime
    /\ store \in QueryStores
    /\ current_end_time = StartTime
    /\ current_date = date_of(StartTime)
    /\ follow_mode = FALSE
    /\ data_hash = EmptyHash
    /\ parsed_data_from_worker = None
    /\ read_worker = 0
    /\ workers = [w \in WorkerIds |-> FreeWorker]
    /\ messages = <<>>
    /\ events = 0
    /\ last = [op |-> "on_mount", branch |-> "snap", launched |-> TRUE,
               after_nav |-> FALSE]
    /\ InitRefresh(DefaultInterval, TRUE)
    /\ InitCollectorRunning
    /\ InitRender

NextQuery == query_applied

SpecQuery == InitQuery /\ [][NextQuery]_vars

----------------------------------------------------------------------------
(* Properties of the live-view controller *)

KeyOps == {"toggle_follow_mode", "change_day_backward", "change_day_forward",
           "move_backward", "move_forward"}

\* the step is on_worker_state_changed
Completing == last'.op = "on_worker_state_changed"
\* the worker whose completion the step handles, and its result
CompletedWorker == Head(messages).worker
CompletedResult == workers[CompletedWorker].result
\* the step stores the result and its fingerprint
Applies ==
    /\ parsed_data_from_worker' = CompletedResult
    /\ data_hash' = fingerprint(CompletedResult)
\* the step posts no redraw request
NoRedraw == messages' = Tail(messages)

\* C1: at most one thread executes the range query at any time, and no step
\* taken while self.read_worker is unfinished starts another one.
C1_SingleFlight ==
    /\ [](Cardinality(InFlight) <= 1)
    /\ [][worker_running => InFlight' \subseteq InFlight]_vars

\* a key handler asked for a launch while the query was running, and none started
C1_Witness ==
    /\ last.op = "move_backward"
    /\ ~last.launched
    /\ InFlight = {read_worker}

\* C2 as claimed: the successful result of a query during which a key handler
\* asked for a launch is applied when its completion is handled.
C2_Original ==
    [][(Completing /\ last'.after_nav /\ Head(messages).state = "SUCCESS"
            /\ CompletedResult.some)
        => Applies]_vars

\* C2 as amended: such a result is applied when its completion is handled
\* while its worker is still self.read_worker; when a later handler has
\* launched a new query between the end of the worker and the handling of its
\* completion, the event is ignored and the view state is left alone.  A key
\* handler never replaces a running worker.
C2_AppliedWhileCurrent ==
    /\ [](\A w \in WorkerIds :
            (workers[w].nav_skipped /\ workers[w].state = "RUNNING") => w = read_worker)
    /\ [][(Completing /\ last'.after_nav /\ Head(messages).state = "SUCCESS"
               /\ CompletedResult.some)
           => IF CompletedWorker = read_worker
              THEN Applies /\ read_worker' = 0
              ELSE NoRedraw /\ UNCHANGED <<parsed_data_from_worker, data_hash,
                                           read_worker>>]_vars

\* a result was applied although a key had been pressed while its query ran
C2_Witness ==
    /\ last.op = "on_worker_state_changed"
    /\ last.after_nav
    /\ last.branch \in {"redrawn", "same"}
    /\ parsed_data_from_worker.some

\* C3: when a result is applied, a redraw is requested exactly once if it
\* differs from the result applied before it, and not at all if it is
\* identical to it.
C3_IdempotentRedraw ==
    [][(Completing /\ last'.branch \in {"redrawn", "same"})
        => IF CompletedResult = parsed_data_from_worker
           THEN NoRedraw
           ELSE messages' = Append(Tail(messages), Callback(CompletedResult))]_vars

\* a second, identical result was applied without a redraw request
C3_Witness ==
    /\ last.op = "on_worker_state_changed"
    /\ last.branch = "same"
    /\ parsed_data_from_worker.some
    /\ data_hash = fingerprint(parsed_data_from_worker)
    /\ \A i \in 1..Len(messages) : messages[i].kind # "Callback"

\* C4 as claimed: a forward step whose new window end would exceed the clock
\* gives the snap-to-now result, and any other forward step pauses with the
\* window end advanced by half a window.
C4_Original ==
    [][last'.op = "move_forward"
        => IF current_end_time + HalfWindow > now
           THEN current_end_time' = now /\ follow_mode'
           ELSE ~follow_mode' /\ current_end_time' = current_end_time + HalfWindow]_vars

\* C4 as amended: the snap-to-now result is produced when the new window end
\* would reach or exceed the clock.
C4_ForwardStep ==
    [][last'.op = "move_forward"
        => IF current_end_time + HalfWindow >= now
           THEN current_end_time' = now /\ follow_mode'
                   /\ current_date' = date_of(now)
           ELSE ~follow_mode' /\ current_end_time' = current_end_time + HalfWindow]_vars

\* a forward step was clamped to now
C4_Witness ==
    /\ last.op = "move_forward"
    /\ last.branch = "snap"
    /\ follow_mode
    /\ current_end_time = now

\* C5: change-day forward when current_date is today changes neither the
\* window, the date, the mode, the fingerprint, the last result nor the
\* workers, and posts nothing.
C5_DayForwardRejected ==
    [][(last'.op = "change_day_forward" /\ current_date = today)
        => UNCHANGED <<current_end_time, current_date, follow_mode, data_hash,
                       parsed_data_from_worker, read_worker, workers, messages>>]_vars

\* change-day forward was pressed on today
C5_Witness ==
    /\ last.op = "change_day_forward"
    /\ last.branch = "rejected"
    /\ current_date = today

\* C6 as claimed, for a query during which no key handler asked for a launch
\* (the view stayed LIVE and only ticks moved the window): after a tick the
\* window ends at the clock, and a query sent to the store starts at
\* window_end - window_seconds for the window_end it ends at.
C6_FollowWindow ==
    [][/\ (last'.op = "live_update" /\ follow_mode) => current_end_time' = now
       /\ (last'.op = "worker_query" /\ follow_mode)
           => \A w \in WorkerIds :
                (workers[w].pc = "query" /\ workers'[w].pc = "done"
                    /\ ~workers[w].nav_skipped)
                    => workers[w].start_time = current_end_time - time_window_seconds]_vars

\* C7: a tick in PAUSED changes nothing of the controller and starts no
\* query, and in PAUSED the window end changes only in a key handler.
C7_PausedTick ==
    [][/\ (last'.op = "live_update" /\ ~follow_mode)
           => UNCHANGED <<current_end_time, current_date, follow_mode, data_hash,
                          parsed_data_from_worker, read_worker, workers, messages>>
       /\ (~follow_mode /\ current_end_time' # current_end_time)
           => last'.op \in KeyOps]_vars

\* the timer ticked while the view was paused away from the clock
C7_Witness ==
    /\ last.op = "live_update"
    /\ last.branch = "paused"
    /\ ~follow_mode
    /\ current_end_time # now

\* C8 as claimed: toggle-follow leaving LIVE keeps the window end and starts
\* no query; entering LIVE it sets follow, moves the window end to the clock,
\* and a query for that window is under way (a thread that has yet to read the
\* window, or one that took its start from it).
C8_ToggleFollow ==
    [][last'.op = "toggle_follow_mode"
        => IF follow_mode
           THEN /\ ~follow_mode'
                /\ UNCHANGED <<current_end_time, read_worker, workers>>
           ELSE /\ follow_mode'
                /\ current_end_time' = now
                /\ \E w \in InFlight' :
                      \/ workers'[w].pc = "start"
                      \/ workers'[w].start_time = now - time_window_seconds]_vars

\* C9: the completion of a failed query (result None, or an exception in the
\* worker) changes neither the fingerprint nor the last result, and requests
\* no redraw.
C9_FailureKeepsView ==
    [][(Completing /\ CompletedWorker = read_worker /\ ~CompletedResult.some)
        => NoRedraw /\ UNCHANGED <<data_hash, parsed_data_from_worker>>]_vars

\* a query failed after a good result had been applied, and the result stayed
C9_Witness ==
    /\ last.op = "on_worker_state_changed"
    /\ last.branch \in {"none", "error"}
    /\ parsed_data_from_worker.some
    /\ data_hash = fingerprint(parsed_data_from_worker)

\* C10 as claimed: a result is applied only when the window of its query is
\* still the current window, be it the window the query was launched for or
\* the window whose start the thread read.
C10_StaleDiscarded ==
    [][(Completing /\ last'.branch \in {"redrawn", "same"})
        => \/ workers[CompletedWorker].launch_end = current_end_time
           \/ workers[CompletedWorker].start_time
                  = current_end_time - time_window_seconds]_vars

----------------------------------------------------------------------------
(* Properties of the refresh timer *)

\* C11: at most one refresh timer is running at any time; a cadence of 0
\* leaves none running; a running timer is self.refresh_timer and ticks at
\* refresh_interval_seconds; and a change of the cadence to a positive value
\* stops the previous timer and starts one new timer at the new cadence.
C11_OneTimer ==
    /\ [](Cardinality(ActiveTimers) <= 1)
    /\ [](refresh_interval_seconds = 0 => ActiveTimers = {})
    /\ [](\A t \in ActiveTimers :
            t = refresh_timer /\ timers[t].interval = refresh_interval_seconds)
    /\ [][(refresh_interval_seconds' # refresh_interval_seconds
            /\ refresh_interval_seconds' > 0)
          => /\ Len(timers') = Len(timers) + 1
             /\ ActiveTimers' = {Len(timers')}
             /\ timers'[Len(timers')].interval = refresh_interval_seconds']_vars

\* the dialog changed the cadence while a timer was running: that timer is
\* stopped and one new timer runs
C11_Witness ==
    /\ last.op = "set_refresh_interval"
    /\ last.branch = "set"
    /\ Len(timers) >= 2
    /\ ~timers[Len(timers) - 1].active
    /\ Cardinality(ActiveTimers) = 1

----------------------------------------------------------------------------
(* Properties of the collector *)

\* the payloads of the rows the serial reader has stored, in store order
stored_lines ==
    LET rows == rows_of_type(store, SERIAL_TYPE)
    IN  [i \in 1..Len(rows) |-> rows[i].json]

\* the lines received that are JSON, in arrival order
json_lines ==
    LET ls == SelectSeq(received, LAMBDA l : ~l.blank /\ l.is_json)
    IN  [i \in 1..Len(ls) |-> ls[i].value]

C13_Isolation ==
    main_pc = "gather"
        => /\ serial_task # "none"
           /\ dht_sensor => (dht_task \in {"created", "sleeping"} /\ loop_free)

\* C14: when the serial connection could not be opened, no reader task
\* exists, nothing was read, written or stored, and the store is closed.
C14_OpenFailure ==
    main_pc = "failed"
        => /\ dht_task = "none"
           /\ serial_task = "none"
           /\ received = <<>>
           /\ store = <<>>
           /\ serial_out = <<>>
           /\ db_conn = "closed"

\* main has ended after the failed open
C14_Witness ==
    /\ main_pc = "failed"
    /\ last.op = "collector_main"
    /\ last.branch = "open_failed"

\* C15 as claimed: no value is written to the serial line twice in a row
\* (every write follows a successful sensor read of that temperature).
C15_EchoOncePerChange ==
    \A i \in 1..(Len(serial_out) - 1) : serial_out[i] # serial_out[i + 1]

----------------------------------------------------------------------------
(* Properties of the aggregation *)

\* the plot has just been redrawn from a result with rows, in cells of width
\* time_window_seconds / plot_width
Drawn ==
    /\ last.op = "update_graph_panes"
    /\ last.branch = "plotted"
    /\ plot_width >= 1

\* the raw series of a key: the offsets of its group and its values
series_times(key) ==
    IF key \in DOMAIN parsed_data_from_worker.val.gpio_data
    THEN parsed_data_from_worker.val.gpio_times
    ELSE parsed_data_from_worker.val.serial_times
series_values(key) ==
    IF key \in DOMAIN parsed_data_from_worker.val.gpio_data
    THEN parsed_data_from_worker.val.gpio_data[key]
    ELSE parsed_data_from_worker.val.serial_data[key]

\* the positions of the series that hold a value
PointsIn(key) == {i \in 1..Len(series_values(key)) : series_values(key)[i] # Absent}

\* floor(offset / cell_width) of the point at position i: the b with
\* b * cell_width <= offset < (b + 1) * cell_width
BucketOf(key, i) ==
    CHOOSE b \in 0..plot_width :
        /\ b * time_window_seconds <= series_times(key)[i] * plot_width
        /\ series_times(key)[i] * plot_width < (b + 1) * time_window_seconds

\* the positions whose point falls in bucket b, and their values
PointsOfBucket(key, b) == {i \in PointsIn(key) : BucketOf(key, i) = b}
ValueAt(key, i) == series_values(key)[i][2]

\* the k-th smallest value among the points at positions ps
KthSmallest(key, ps, k) ==
    CHOOSE x \in {ValueAt(key, i) : i \in ps} :
        /\ Cardinality({i \in ps : ValueAt(key, i) < x}) < k
        /\ k <= Cardinality({i \in ps : ValueAt(key, i) <= x})

RECURSIVE SumOf(_, _)
SumOf(key, ps) ==
    IF ps = {} THEN 0
    ELSE LET i == CHOOSE j \in ps : TRUE
         IN  ValueAt(key, i) + SumOf(key, ps \ {i})

\* the bucket index of the i-th emitted entry of a key
EmittedIndex(key, i) == aggregated_data[key].times[i].num \div time_window_seconds

\* C16 as claimed: every emitted bucket start is a multiple of
\* window_seconds / display_width and lies in [0, window_seconds).
C16_BucketCoverage ==
    Drawn =>
        \A key \in DOMAIN aggregated_data :
            \A i \in 1..Len(aggregated_data[key].times) :
                LET start == aggregated_data[key].times[i]
                IN  /\ start.den = plot_width
                    /\ start.num % time_window_seconds = 0
                    /\ 0 <= start.num
                    /\ start.num < time_window_seconds * start.den

\* C17: every emitted value is the median of the values of the points that
\* fall in its bucket, whatever order they arrived in: the middle one of an
\* odd count, the mean of the two middle ones of an even count.
C17_Median ==
    Drawn =>
        \A key \in DOMAIN aggregated_data :
            \A i \in 1..Len(aggregated_data[key].values) :
                LET ps == PointsOfBucket(key, EmittedIndex(key, i))
                    n == Cardinality(ps)
                    lower == KthSmallest(key, ps, (n + 1) \div 2)
                    upper == KthSmallest(key, ps, (n \div 2) + 1)
                    value == aggregated_data[key].values[i]
                IN  /\ n >= 1
                    /\ 2 * value.num = value.den * (lower + upper)

\* 20 then 10 arrived in one bucket and 15 was emitted
C17_Witness ==
    /\ Drawn
    /\ "niveau_utile" \in DOMAIN aggregated_data
    /\ series_values("niveau_utile") = <<Num(20), Num(10)>>
    /\ aggregated_data["niveau_utile"].values = <<Fraction(30, 2)>>

\* C18 as claimed, for a caller that selects the mean: every emitted value is
\* the arithmetic mean of the values of its bucket.  (The code has one
\* aggregation routine and no reducer argument: what a caller that wants the
\* mean gets is what every caller gets.)
C18_MeanReducer ==
    Drawn =>
        \A key \in DOMAIN aggregated_data :
            \A i \in 1..Len(aggregated_data[key].values) :
                LET ps == PointsOfBucket(key, EmittedIndex(key, i))
                    value == aggregated_data[key].values[i]
                IN  Cardinality(ps) * value.num = value.den * SumOf(key, ps)

\* C20: for every key the emitted buckets are in strictly ascending index
\* order, with as many values as starts, and they are exactly the buckets in
\* which a point with a value falls - a point without a value adds no bucket
\* and moves no other point.
C20_SparseOrdered ==
    Drawn =>
        \A key \in DOMAIN aggregated_data :
            LET n == Len(aggregated_data[key].times)
            IN  /\ Len(aggregated_data[key].values) = n
                /\ \A i \in 1..(n - 1) : EmittedIndex(key, i) < EmittedIndex(key, i + 1)
                /\ {EmittedIndex(key, i) : i \in 1..n}
                       = {BucketOf(key, j) : j \in PointsIn(key)}

\* a row without the field lies between two rows with it, and fewer buckets
\* than cells were emitted
C20_Witness ==
    /\ Drawn
    /\ "niveau_utile" \in DOMAIN aggregated_data
    /\ Len(series_values("niveau_utile")) = 3
    /\ series_values("niveau_utile")[1] # Absent
    /\ series_values("niveau_utile")[2] = Absent
    /\ series_values("niveau_utile")[3] # Absent
    /\ Len(aggregated_data["niveau_utile"].times) = 2
    /\ plot_width = 3

----------------------------------------------------------------------------
(* Properties of the range query *)

\* the stored rows of a group whose timestamp lies in [lower, upper], in
\* store order, which is ascending timestamp order
GroupRows(log_type, lower, upper) ==
    SelectSeq(store, LAMBDA r : /\ r.type = log_type
                                /\ lower <= r.timestamp
                                /\ r.timestamp <= upper)

\* the field names that have a numeric value in some row
NumericFields(rows) ==
    {k \in {FieldOrder[i] : i \in 1..Len(FieldOrder)} :
        \E i \in 1..Len(rows) :
            /\ k \in DOMAIN rows[i].json.fields
            /\ rows[i].json.fields[k][1] = "num"}

\* the points a field must contribute: one per row in which it is numeric
ExpectedPoints(rows, k, lower) ==
    LET having == SelectSeq(rows, LAMBDA r : /\ k \in DOMAIN r.json.fields
                                             /\ r.json.fields[k][1] = "num")
    IN  [i \in 1..Len(having) |->
            <<having[i].timestamp - lower, having[i].json.fields[k]>>]

\* the points with a numeric value in a returned series
ReturnedPoints(times, values) ==
    LET pairs == [i \in 1..Len(values) |-> <<times[i], values[i]>>]
    IN  SelectSeq(pairs, LAMBDA pt : pt[2][1] = "num")

\* what C19 asks of the result of a query over [lower, upper]
ExactlyTheWindow(result, lower, upper) ==
    /\ result.some
    /\ LET serial_rows == GroupRows(SERIAL_TYPE, lower, upper)
           gpio_rows == GroupRows(GPIO_TYPE, lower, upper)
       IN  /\ DOMAIN result.val.serial_data = NumericFields(serial_rows)
           /\ DOMAIN result.val.gpio_data = NumericFields(gpio_rows)
           /\ \A k \in DOMAIN result.val.serial_data :
                ReturnedPoints(result.val.serial_times, result.val.serial_data[k])
                    = ExpectedPoints(serial_rows, k, lower)
           /\ \A k \in DOMAIN result.val.gpio_data :
                ReturnedPoints(result.val.gpio_times, result.val.gpio_data[k])
                    = ExpectedPoints(gpio_rows, k, lower)

\* C19 as claimed: a range query that the store answers returns, for the
\* window [lower, upper] it asked for, exactly one point (timestamp - lower,
\* value) per stored row of the window and numeric field of that row, in
\* timestamp order, serial rows in the serial group and sensor rows in the
\* sensor group.
C19_RangeQuery ==
    [][\A w \in WorkerIds :
        (/\ workers[w].pc = "query"
         /\ workers'[w].pc = "done"
         /\ last'.op = "worker_query"
         /\ last'.branch \in {"data", "raised"})
            => ExactlyTheWindow(workers'[w].result, workers[w].start_time,
                                current_end_time)]_vars

----------------------------------------------------------------------------
(* Properties of the query's window under navigation *)

\* C21 as claimed: every query a worker thread sends to the store, whatever
\* happens on the interactive thread while it runs, has bounds that are one
\* window apart: upper - lower = window_seconds.
C21_ConsistentSnapshot ==
    [][\A w \in WorkerIds :
        (/\ last'.op = "worker_query"
         /\ workers[w].pc = "query"
         /\ workers'[w].pc = "done")
            => current_end_time - workers[w].start_time = time_window_seconds]_vars

\* the window ends a session can reach
WindowEnds == 0..(StartTime + MaxEvents)

\* a step or change-day has just moved the paused window to end at e, and
\* run_worker_safely skipped its launch
NavSkipped(e) ==
    /\ ~follow_mode
    /\ current_end_time = e
    /\ last.op \in {"change_day_backward", "change_day_forward",
                    "move_backward", "move_forward"}
    /\ last.branch \in {"day", "step"}
    /\ ~last.launched

\* a query has just been launched for the window that ends at e
LaunchedFor(e) ==
    \E w \in WorkerIds : workers[w].pc = "start" /\ workers[w].launch_end = e

\* a worker thread has just sent the store a query whose lower bound is the
\* start of the window that ends at e (its upper bound is the window end of
\* that moment): the outstanding query happened to read the new window
QueriedFor(e) ==
    /\ last.op = "worker_query"
    /\ \E w \in WorkerIds :
        /\ workers[w].state \in {"SUCCESS", "ERROR"}
        /\ workers[w].start_time = e - time_window_seconds

\* C22 as claimed: when a step or change-day in PAUSED moved the window while
\* a query was outstanding, so that its launch was skipped, a query for the
\* new window follows (one launched for it, or the outstanding one if it read
\* the new window), unless the window is moved again or the view goes LIVE
\* first.
C22_NavigationRequeried ==
    \A e \in WindowEnds :
        NavSkipped(e) ~> (\/ follow_mode
                          \/ current_end_time # e
                          \/ LaunchedFor(e)
                          \/ QueriedFor(e))

\* the step is a handler that reaches run_worker_safely: a tick in LIVE or a
\* navigation command that is not rejected
LaunchRequested ==
    /\ last'.op \in {"live_update", "toggle_follow_mode", "change_day_backward",
                     "change_day_forward", "move_backward", "move_forward"}
    /\ last'.branch \in {"live", "day", "step", "snap"}

\* no query is outstanding: none was launched, or the thread of the last one
\* has left read_logs_from_db, by a return or by an exception
SlotFree == read_worker = 0 \/ workers[read_worker].pc = "done"

\* C23: once the outstanding query has finished, with data, with None after a
\* store failure or with an exception, and whether or not its completion event
\* has been handled yet, the next tick in LIVE or navigation command starts a
\* new query, for the window that handler has set.
C23_NeverWedged ==
    [][(LaunchRequested /\ SlotFree)
        => /\ read_worker' \in WorkerIds \ InFlight
           /\ InFlight' = InFlight \cup {read_worker'}
           /\ workers'[read_worker'].pc = "start"
           /\ workers'[read_worker'].state = "RUNNING"
           /\ workers'[read_worker'].launch_end = current_end_time']_vars

\* a tick has launched a query while the event of a query that ended with an
\* exception was still in the queue
C23_Witness ==
    /\ last.op = "live_update"
    /\ last.launched
    /\ read_worker \in InFlight
    /\ \E w \in WorkerIds \ {read_worker} : workers[w].state = "ERROR"

----------------------------------------------------------------------------
(* Properties of the displayed day *)

\* C24 as claimed: whatever commands and ticks have run, current_date is the
\* calendar date of the window end.
C24_DateOfWindow == current_date = date_of(current_end_time)

----------------------------------------------------------------------------
(* Properties of the stored payloads *)

\* C25 as claimed: every row the serial reader has stored holds a JSON
\* object, and no range query has failed on a stored row.
C25_ObjectsOnly ==
    /\ \A i \in 1..Len(store) :
        store[i].type = SERIAL_TYPE => store[i].json.obj
    /\ ~(last.op = "worker_query" /\ last.branch = "raised")

\* the rows of a group that the applied query fetched
FetchedRows(log_type) ==
    rows_of_type(select_between(store, current_end_time - time_window_seconds,
                                current_end_time), log_type)

\* every series of the group has one entry per fetched row of the group, as
\* the group's time offsets have, and every entry is a number or absent
WellFormedGroup(times, data, log_type) ==
    /\ Len(times) = Len(FetchedRows(log_type))
    /\ \A key \in DOMAIN data :
        /\ Len(data[key]) = Len(times)
        /\ \A i \in 1..Len(data[key]) :
            data[key][i] = Absent \/ data[key][i][1] = "num"

\* C26 as claimed: in the result of a range query every series value is
\* numeric or absent, a non-numeric field value counting as absent, and every
\* series has one entry per row of its group, aligned with the time offsets.
C26_NumericOrAbsent ==
    parsed_data_from_worker.some =>
        /\ WellFormedGroup(parsed_data_from_worker.val.serial_times,
                           parsed_data_from_worker.val.serial_data, SERIAL_TYPE)
        /\ WellFormedGroup(parsed_data_from_worker.val.gpio_times,
                           parsed_data_from_worker.val.gpio_data, GPIO_TYPE)

====
